---------------------------- MODULE Spec2Model ----------------------------
(***************************************************************************)
(* Model of the ISO-20022 CAMT.052/CAMT.053 statement parser,              *)
(* src/src/ofxstatement/plugins/iso20022.py (class Iso20022Parser).        *)
(*                                                                         *)
(* Representation of Python values:                                        *)
(*   - a str is a TLA+ string, and None in a str slot is the string None;  *)
(*   - a str the code takes apart (the namespace, a date text) is a record *)
(*     [chars |-> <<token, ...>>];                                         *)
(*   - objects (XML elements, Decimal, datetime, Statement, StatementLine) *)
(*     are records, and None in an object slot is the record Null;         *)
(*   - a Decimal is [hundredths |-> n], its exact value in 1/100 units;    *)
(*   - an exception is [type |-> ..., msg |-> ...].                        *)
(* An XML element is modelled by the results of the find() calls the code  *)
(* makes on it: one field per path, Null where find() returns None.        *)
(***************************************************************************)
EXTENDS Integers, Sequences, FiniteSets, TLC

VARIABLES
    currency,   \* self.currency: the caller-supplied default currency
    iban,       \* self.iban: the caller-supplied default IBAN
    tree,       \* the document ET.parse(self.filename) yields
    statement,  \* self.statement
    version,    \* self.version
    stmt,       \* the statement element _parse_lines iterates over
    i,          \* number of Ntry elements _parse_lines has consumed
    pc,         \* position of parse(): new, properties, lines, returned, raised
    exc,        \* the exception parse() raised, NoExc while there is none
    result      \* the value parse() returned, Null while there is none

vars == <<currency, iban, tree, statement, version, stmt, i, pc, exc, result>>

---------------------------------------------------------------------------
(* Bounds of the model *)

MaxBals == 3

MaxNtry == 2

---------------------------------------------------------------------------
(* Python values *)

None == "None"

Null == [none |-> TRUE]

Str(toks) == [chars |-> toks]

\* the Decimal whose value is n/100
Dec(n) == [hundredths |-> n]

NoExc == [type |-> "none", msg |-> ""]

ParseError(msg) == [type |-> "ParseError", msg |-> msg]

AssertionError == [type |-> "AssertionError", msg |-> ""]

KeyError(key) == [type |-> "KeyError", msg |-> key]

ValueError == [type |-> "ValueError", msg |-> ""]

MsgUnrecognized == "Cannot recognize ISO20022 XML"

MsgNoCurrency == "No account currency provided in statement"

MsgNoIban == "No iban found in the statement"

MsgNoBalance == "No statement balance found for currency"

MsgNotFound(spath) == spath \o " is not found"

---------------------------------------------------------------------------
(* Program constants *)

NsBase == <<"urn:iso:std:iso:20022:tech:xsd:", "camt.05">>

CAMT052_NAMESPACE_ROOT == Str(NsBase \o <<"2">>)

CAMT053_NAMESPACE_ROOT == Str(NsBase \o <<"3">>)

CD_CREDIT == "CRDT"

CD_DEBIT == "DBIT"

\* class CamtVersion(enum.Enum), in definition (= iteration) order
CamtVersion == <<"CAMT052", "CAMT053">>

CamtVersionValue(ver) ==
    IF ver = "CAMT052" THEN CAMT052_NAMESPACE_ROOT ELSE CAMT053_NAMESPACE_ROOT

PathStmt == "BkToCstmrStmt/Stmt"

PathRpt == "BkToCstmrAcctRpt/Rpt"

StmtPaths == {PathStmt, PathRpt}

---------------------------------------------------------------------------
(* str operations *)

\* startswith as an exact comparison
startswith_Exact(s, prefix) == s = prefix

\* ns.startswith(prefix)
startswith(s, prefix) ==
    /\ Len(s.chars) >= Len(prefix.chars)
    /\ SubSeq(s.chars, 1, Len(prefix.chars)) = prefix.chars

\* number of "+" tokens in a token sequence
RECURSIVE CountPlus(_)
CountPlus(toks) ==
    IF toks = <<>> THEN 0
    ELSE (IF Head(toks) = "+" THEN 1 ELSE 0) + CountPlus(Tail(toks))

\* the tokens before the first "+"
RECURSIVE BeforePlus(_)
BeforePlus(toks) ==
    IF toks = <<>> \/ Head(toks) = "+" THEN <<>>
    ELSE <<Head(toks)>> \o BeforePlus(Tail(toks))

\* truthiness of an Optional[str]
Truthy(s) == s # None /\ s # ""

---------------------------------------------------------------------------
(* Conversions *)

\* Decimal(text) for the amount texts of the modelled documents
Decimal(text) ==
    CASE text = "306.53" -> Dec(30653)
      [] text = "125.52" -> Dec(12552)
      [] text = "1.50"   -> Dec(150)
      [] text = "0"      -> Dec(0)
      [] text = "-0.29"  -> Dec(0 - 29)

\* -amt
Neg(amt) == Dec(0 - amt.hundredths)

DateTokens == {"2015-12-01", "2015-12-31", "2017-04-01"}

TimeTokens == {"10:15:30"}

\* datetime.datetime.strptime(dtvalue, "%Y-%m-%d"): Null stands for ValueError
strptime_date(dtvalue) ==
    IF Len(dtvalue.chars) = 1 /\ dtvalue.chars[1] \in DateTokens
    THEN [date |-> dtvalue.chars[1], time |-> "00:00:00"]
    ELSE Null

\* datetime.datetime.strptime(dtvalue, "%Y-%m-%dT%H:%M:%S")
strptime_datetime(dtvalue) ==
    IF /\ Len(dtvalue.chars) = 3
       /\ dtvalue.chars[1] \in DateTokens
       /\ dtvalue.chars[2] = "T"
       /\ dtvalue.chars[3] \in TimeTokens
    THEN [date |-> dtvalue.chars[1], time |-> dtvalue.chars[3]]
    ELSE Null

\* Outcome of a call: the exception it raised (NoExc if none) and its value
Returns(v) == [exc |-> NoExc, value |-> v]

Raises(e) == [exc |-> e, value |-> Null]

\* _notimezone(dt): dt.split("+") is unpacked into exactly two names
_notimezone(dt) ==
    IF CountPlus(dt.chars) = 0 THEN Returns(dt)
    ELSE IF CountPlus(dt.chars) = 1 THEN Returns(Str(BeforePlus(dt.chars)))
    ELSE Raises(ValueError)

\* _parse_date(dtnode)
_parse_date(dtnode) ==
    IF dtnode = Null THEN Returns(Null)
    ELSE
      LET dt == dtnode.Dt
          dttm == dtnode.DtTm
      IN IF dt # Null /\ dt.text # Null
         THEN LET dtvalue == _notimezone(dt.text)
              IN IF dtvalue.exc # NoExc THEN dtvalue
                 ELSE IF strptime_date(dtvalue.value) = Null
                      THEN Raises(ValueError)
                      ELSE Returns(strptime_date(dtvalue.value))
         ELSE IF ~(dttm # Null /\ dttm.text # Null) THEN Raises(AssertionError)
         ELSE LET dtvalue == _notimezone(dttm.text)
              IN IF dtvalue.exc # NoExc THEN dtvalue
                 ELSE IF strptime_datetime(dtvalue.value) = Null
                      THEN Raises(ValueError)
                      ELSE Returns(strptime_datetime(dtvalue.value))

\* _parse_amount(amtnode)
_parse_amount(amtnode) ==
    IF amtnode.text = None THEN Raises(AssertionError)
    ELSE Returns(Decimal(amtnode.text))

\* _findstrict(tree, spath), found being _find(tree, spath)
_findstrict(found, spath) ==
    IF found = Null THEN Raises(ParseError(MsgNotFound(spath)))
    ELSE Returns(found)

---------------------------------------------------------------------------
(* Format detection *)

\* _get_namespace(elem): the text between the braces of the root tag, or ""
_get_namespace(root) == root.ns

\* _recognize_version(ns): the first version, in enumeration order, whose
\* value is a prefix of ns
RECURSIVE RecognizeFrom(_, _)
RecognizeFrom(ns, k) ==
    IF k > Len(CamtVersion) THEN Raises(ParseError(MsgUnrecognized))
    ELSE IF startswith(ns, CamtVersionValue(CamtVersion[k]))
         THEN [exc |-> NoExc, value |-> CamtVersion[k]]
         ELSE RecognizeFrom(ns, k + 1)

_recognize_version(ns) == RecognizeFrom(ns, 1)

\* _get_statement_el(tree): Null stands for the failure of "assert stmt is not None"
_get_statement_el(t, ver) ==
    IF ver = "CAMT053" THEN t.nodes[PathStmt] ELSE t.nodes[PathRpt]

---------------------------------------------------------------------------
(* Statement properties *)

\* dict: a function from the set of its keys
EmptyDict == [k \in {} |-> Null]

DictSet(d, key, v) ==
    [k \in DOMAIN d \cup {key} |-> IF k = key THEN v ELSE d[k]]

\* d.get(key, default)
DictGet(d, key, default) == IF key \in DOMAIN d THEN d[key] ELSE default

\* stmt.find("./s:Ntry/s:NtryDtls/s:TxDtls/s:RltdPties/s:CdtrAcct/s:Id/s:IBAN"):
\* the first such element in document order
RECURSIVE FindCdtrAcctIBAN(_, _)
FindCdtrAcctIBAN(ntries, k) ==
    IF k > Len(ntries) THEN Null
    ELSE IF ntries[k].CdtrAcctIBAN # Null THEN ntries[k].CdtrAcctIBAN
    ELSE FindCdtrAcctIBAN(ntries, k + 1)

\* BalSkipped without the currency comparison
BalSkipped_Never(amt_ccy, stmt_ccy) == FALSE

\* "if amt_ccy != self.statement.currency: continue" in the balance loop
BalSkipped(amt_ccy, stmt_ccy) == amt_ccy # stmt_ccy

\* the loop over bals from its k-th element on, with the dictionaries so far
RECURSIVE BalLoop(_, _, _, _, _)
BalLoop(bals, k, stmt_ccy, bal_amts, bal_dates) ==
    IF k > Len(bals)
    THEN [exc |-> NoExc, bal_amts |-> bal_amts, bal_dates |-> bal_dates]
    ELSE
      LET bal == bals[k]
          cd == bal.Cd
          amt == bal.Amt
          dt == bal.Dt
          failed(e) == [exc |-> e, bal_amts |-> bal_amts, bal_dates |-> bal_dates]
      IN IF cd = Null \/ amt = Null THEN failed(AssertionError)
         ELSE IF BalSkipped(amt.Ccy, stmt_ccy)
              THEN BalLoop(bals, k + 1, stmt_ccy, bal_amts, bal_dates)
         ELSE LET a == _parse_amount(amt)
                  d == _parse_date(dt)
              IN IF a.exc # NoExc THEN failed(a.exc)
                 ELSE IF d.exc # NoExc THEN failed(d.exc)
                 ELSE BalLoop(bals, k + 1, stmt_ccy,
                              DictSet(bal_amts, cd.text, a.value),
                              DictSet(bal_dates, cd.text, d.value))

\* StartOf preferring the previous closing balance
StartOf_PrcdFirst(d) == DictGet(d, "PRCD", DictGet(d, "OPBD", Null))

\* "bal_amts.get("OPBD", bal_amts.get("PRCD"))", for bal_amts and bal_dates
StartOf(d) == DictGet(d, "OPBD", DictGet(d, "PRCD", Null))

\* lines 94-102: the IBAN element at the primary path, else at the alternate one
FindIban(el) ==
    IF el.IBAN # Null THEN el.IBAN ELSE FindCdtrAcctIBAN(el.Ntry, 1)

\* ResolveCurrency letting the configured currency win
ResolveCurrency_DefaultWins(acctCurrency, stmt_ccy) ==
    IF stmt_ccy # None THEN stmt_ccy ELSE acctCurrency

\* lines 105-108: the statement currency, given the document's and the one set
ResolveCurrency(acctCurrency, stmt_ccy) ==
    IF Truthy(acctCurrency) THEN acctCurrency ELSE stmt_ccy

\* lines 108-109: no document currency and none configured
CurrencyMissing(acctCurrency, stmt_ccy) ==
    ~Truthy(acctCurrency) /\ stmt_ccy = None

\* lines 116-119: the account id, given the document's and the one set
ResolveAccountId(acctIban, account_id) ==
    IF Truthy(acctIban) THEN acctIban ELSE account_id

\* IbanMissing without the check
IbanMissing_Never(acctIban, account_id) == FALSE

\* lines 119-120: no document IBAN and none configured
IbanMissing(acctIban, account_id) ==
    ~Truthy(acctIban) /\ account_id = None

\* KeepAccountId overwriting the account id with whatever the document has
KeepAccountId_Overwrite(acctIban, account_id) == acctIban

\* lines 154-156: the account id is not overwritten with None
KeepAccountId(acctIban, account_id) ==
    IF acctIban # None THEN acctIban ELSE account_id

\* _parse_statement_properties(tree): the exception raised, if any, and
\* self.statement as the call leaves it
_parse_statement_properties(t, ver, st) ==
    LET el == _get_statement_el(t, ver)
    IN IF el = Null THEN [exc |-> AssertionError, statement |-> st]
       ELSE
         LET bnk == IF el.BIC # Null THEN el.BIC ELSE el.Nm
             ccy == el.Ccy
             bals == el.Bal
             ibanfind == FindIban(el)
             acctCurrency == IF ccy # Null THEN ccy.text ELSE None
             st1 == [st EXCEPT
                       !.currency = ResolveCurrency(acctCurrency, st.currency)]
             acctIban == IF ibanfind # Null THEN ibanfind.text ELSE None
             st2 == [st1 EXCEPT
                       !.account_id = ResolveAccountId(acctIban, st1.account_id)]
             loop == BalLoop(bals, 1, st2.currency, EmptyDict, EmptyDict)
             st3 == [st2 EXCEPT
                       !.bank_id = IF bnk # Null THEN bnk.text ELSE None,
                       !.account_id = KeepAccountId(acctIban, st2.account_id)]
             st4 == [st3 EXCEPT
                       !.start_balance = StartOf(loop.bal_amts),
                       !.start_date = StartOf(loop.bal_dates)]
         IN IF CurrencyMissing(acctCurrency, st.currency)
            THEN [exc |-> ParseError(MsgNoCurrency), statement |-> st1]
            ELSE IF IbanMissing(acctIban, st1.account_id)
            THEN [exc |-> ParseError(MsgNoIban), statement |-> st2]
            ELSE IF loop.exc # NoExc
            THEN [exc |-> loop.exc, statement |-> st2]
            ELSE IF DOMAIN loop.bal_amts = {}
            THEN [exc |-> ParseError(MsgNoBalance), statement |-> st2]
            ELSE IF "CLBD" \notin DOMAIN loop.bal_amts
            THEN [exc |-> KeyError("CLBD"), statement |-> st4]
            ELSE [exc |-> NoExc,
                  statement |-> [st4 EXCEPT
                                   !.end_balance = loop.bal_amts["CLBD"],
                                   !.end_date = loop.bal_dates["CLBD"]]]

---------------------------------------------------------------------------
(* Entries *)

\* StatementLine()
StatementLine ==
    [payee |-> None, amount |-> Null, date |-> Null, date_user |-> Null,
     refnum |-> None, memo |-> None]

\* Incompatible without the currency comparison
Incompatible_Never(amt_ccy, stmt_ccy) == FALSE

\* "if amt_ccy != self.statement.currency: return None" in _parse_line
Incompatible(amt_ccy, stmt_ccy) == amt_ccy # stmt_ccy

\* SignedAmount without the negation of debits
SignedAmount_NoNeg(crdeb, amt) == amt

\* the sign and the payee chosen on crdeb (lines 199-207)
SignedAmount(crdeb, amt) == IF crdeb = CD_DEBIT THEN Neg(amt) ELSE amt

Payee(ntry, crdeb) == IF crdeb = CD_DEBIT THEN ntry.CdtrNm ELSE ntry.DbtrNm

\* MemoOf trying the unstructured remittance information first
MemoOf_UstrdFirst(refinf, rmtinf, addinf) ==
    IF rmtinf # Null THEN rmtinf.text
    ELSE IF refinf # Null THEN refinf.text
    ELSE IF addinf # Null THEN addinf.text
    ELSE None

\* the memo, from the first of the three locations that is found (lines 221-230)
MemoOf(refinf, rmtinf, addinf) ==
    IF refinf # Null THEN refinf.text
    ELSE IF rmtinf # Null THEN rmtinf.text
    ELSE IF addinf # Null THEN addinf.text
    ELSE None

\* the reference number (lines 215-219)
RefnumOf(ntry) ==
    LET svcref == IF ntry.TxAcctSvcrRef # Null THEN ntry.TxAcctSvcrRef
                  ELSE ntry.AcctSvcrRef
    IN IF svcref # Null THEN svcref.text ELSE None

\* _parse_line(ntry): the exception raised, if any, and the line returned
\* (Null for "return None")
_parse_line(ntry, stmt_ccy) ==
    LET crdebEl == _findstrict(ntry.CdtDbtInd, "CdtDbtInd")
        amtnode == _findstrict(ntry.Amt, "Amt")
    IN IF crdebEl.exc # NoExc THEN Raises(crdebEl.exc)
       ELSE IF amtnode.exc # NoExc THEN Raises(amtnode.exc)
       ELSE IF Incompatible(amtnode.value.Ccy, stmt_ccy) THEN Returns(Null)
       ELSE
         LET crdeb == crdebEl.value.text
             amt == _parse_amount(amtnode.value)
             payee == Payee(ntry, crdeb)
             date == _parse_date(ntry.ValDt)
             date_user == _parse_date(ntry.BookgDt)
         IN IF amt.exc # NoExc THEN Raises(amt.exc)
            ELSE IF date.exc # NoExc THEN Raises(date.exc)
            ELSE IF date_user.exc # NoExc THEN Raises(date_user.exc)
            ELSE Returns(
              [payee |-> IF payee # Null THEN payee.text ELSE None,
               amount |-> SignedAmount(crdeb, amt.value),
               date |-> date.value,
               date_user |-> date_user.value,
               refnum |-> RefnumOf(ntry),
               memo |-> MemoOf(ntry.Ref, ntry.Ustrd, ntry.AddtlNtryInf)])

---------------------------------------------------------------------------
(* Documents *)

\* an element with the given text (None: an empty element)
Text(s) == [text |-> s]

\* <Amt Ccy="ccy">text</Amt>
AmtEl(ccy, text) == [Ccy |-> ccy, text |-> text]

\* a date container holding <Dt>, or holding <DtTm>
DtNode(toks) == [Dt |-> [text |-> Str(toks)], DtTm |-> Null]

DtTmNode(toks) == [Dt |-> Null, DtTm |-> [text |-> Str(toks)]]

\* <Bal>: Tp/CdOrPrtry/Cd, Amt and Dt
BalEl(cd, ccy, val) ==
    [Cd |-> Text(cd), Amt |-> AmtEl(ccy, val.amt), Dt |-> val.dt]

BalValues ==
    { [amt |-> "306.53", dt |-> DtNode(<<"2015-12-01">>)],
      [amt |-> "125.52", dt |-> DtNode(<<"2015-12-31", "+", "02:00">>)] }

BalCodes == {"OPBD", "PRCD", "CLBD"}

Currencies == {"EUR", "CHF"}

BalPool == { BalEl(cd, ccy, val) : cd \in BalCodes, ccy \in Currencies, val \in BalValues }

\* <Ntry>: one field per path _parse_line and _parse_statement_properties look up
NtryEl(crdeb, amt, refinf, rmtinf, addinf, cdtrIban) ==
    [CdtDbtInd |-> crdeb, Amt |-> amt,
     CdtrNm |-> Text("AB DNB Bankas"), DbtrNm |-> Null,
     ValDt |-> DtNode(<<"2017-04-01", "+", "02:00">>),
     BookgDt |-> DtTmNode(<<"2017-04-01", "T", "10:15:30">>),
     TxAcctSvcrRef |-> Null, AcctSvcrRef |-> Text("FC1261858984"),
     Ref |-> refinf, Ustrd |-> rmtinf, AddtlNtryInf |-> addinf,
     CdtrAcctIBAN |-> cdtrIban]

CrdebEls == {Null, Text(CD_CREDIT), Text(CD_DEBIT)}

AmtEls ==
    {Null, AmtEl("EUR", "1.50"), AmtEl("EUR", "0"), AmtEl("EUR", "-0.29"),
     AmtEl("CHF", "1.50"), AmtEl("EUR", None)}

\* entries that differ in indicator, amount and currency
NtrySignPool ==
    { NtryEl(crdeb, amt, Null, Null, Text("Account Transfer"), Null) :
        crdeb \in CrdebEls, amt \in AmtEls }

\* entries that differ in the three memo locations
NtryMemoPool ==
    { NtryEl(Text(CD_CREDIT), AmtEl("EUR", "1.50"), refinf, rmtinf, addinf, Null) :
        refinf \in {Null, Text(None), Text("RF18539007547034")},
        rmtinf \in {Null, Text(None), Text("PAYMENT INFO")},
        addinf \in {Null, Text(None), Text("Account Transfer")} }

NtryPool == NtrySignPool \cup NtryMemoPool

\* the sequences over S of length at most n
SeqsUpTo(S, n) == UNION { [1..k -> S] : k \in 0..n }

\* the statement (camt.053) or report (camt.052) element found at path
StmtEl(path, ccy, ibanEl, bals, ntries) ==
    [path |-> path, BIC |-> Null, Nm |-> Text("Raiffeisen"),
     Ccy |-> ccy, IBAN |-> ibanEl, Bal |-> bals, Ntry |-> ntries]

\* a document: the namespace of its root tag and the element at each path
Tree(ns, paths, ccy, ibanEl, bals, ntries) ==
    [ns |-> ns,
     nodes |-> [p \in StmtPaths |->
                  IF p \in paths THEN StmtEl(p, ccy, ibanEl, bals, ntries)
                  ELSE Null]]

Namespaces ==
    { Str(<<>>),
      Str(NsBase),
      Str(NsBase \o <<"4", ".001.02">>),
      Str(NsBase \o <<"3">>),
      Str(NsBase \o <<"3", ".001.02">>),
      Str(NsBase \o <<"2", ".001.08">>) }

NsStmt == Str(NsBase \o <<"3", ".001.02">>)

MixedBals ==
    << BalEl("PRCD", "EUR", [amt |-> "306.53", dt |-> DtNode(<<"2015-12-01">>)]),
       BalEl("CLBD", "EUR", [amt |-> "125.52", dt |-> DtNode(<<"2015-12-31">>)]),
       BalEl("CLBD", "CHF", [amt |-> "306.53", dt |-> DtNode(<<"2017-04-01">>)]) >>

\* documents that differ in namespace, statement path, account currency and IBAN
HeaderTrees ==
    { Tree(ns, paths, ccy, ibanEl, MixedBals,
           << NtryEl(Text(CD_DEBIT), AmtEl("EUR", "1.50"), Null, Null, Null, cdtrIban),
              NtryEl(Text(CD_CREDIT), AmtEl("CHF", "1.50"), Null, Null, Null, Null) >>) :
        ns \in Namespaces, paths \in SUBSET StmtPaths,
        ccy \in {Null, Text(None), Text("EUR"), Text("CHF")},
        ibanEl \in {Null, Text(None), Text("LT000000000000000000")},
        cdtrIban \in {Null, Text("CH2609000000924238861")} }

\* documents that differ in their balances
BalanceTrees ==
    { Tree(NsStmt, {PathStmt}, ccy, Text("LT000000000000000000"), bals, <<>>) :
        ccy \in {Null, Text("EUR")}, bals \in SeqsUpTo(BalPool, MaxBals) }

\* documents that differ in their entries
EntryTrees ==
    { Tree(NsStmt, {PathStmt}, Text("EUR"), Text("LT000000000000000000"),
           MixedBals, ntries) :
        ntries \in SeqsUpTo(NtryPool, MaxNtry) }

\* date containers that differ in the child they hold and in the "+" of its text
DateEls ==
    { Null,
      [Dt |-> Null, DtTm |-> Null],
      DtNode(<<"2017-04-01">>),
      DtNode(<<"2017-04-01", "+", "02:00">>),
      DtNode(<<"2017-04-01", "+">>),
      DtNode(<<"2017-04-01", "+", "02:00", "+", "01:00">>),
      DtNode(<<"+", "02:00">>),
      DtTmNode(<<"2017-04-01", "T", "10:15:30">>),
      DtTmNode(<<"2017-04-01", "T", "10:15:30", "+", "02:00">>),
      DtTmNode(<<"2017-04-01", "T", "10:15:30", "+", "02:00", "+", "01:00">>) }

\* an entry with the given value date and booking date containers
NtryDated(valdt, bookgdt) ==
    [NtryEl(Text(CD_CREDIT), AmtEl("EUR", "1.50"), Null, Null,
            Text("Account Transfer"), Null)
       EXCEPT !.ValDt = valdt, !.BookgDt = bookgdt]

\* documents that differ in the dates of their entry
DateTrees ==
    { Tree(NsStmt, {PathStmt}, Text("EUR"), Text("LT000000000000000000"),
           MixedBals, <<NtryDated(valdt, bookgdt)>>) :
        valdt \in DateEls, bookgdt \in DateEls }

---------------------------------------------------------------------------
(* The parser *)

\* Statement()
Statement ==
    [currency |-> None, account_id |-> None, bank_id |-> None,
     start_balance |-> Null, start_date |-> Null,
     end_balance |-> Null, end_date |-> Null, lines |-> <<>>]

\* Iso20022Plugin.get_parser and Iso20022Parser.__init__
Init ==
    /\ \/ /\ tree \in HeaderTrees
          /\ currency \in {None, "EUR", "CHF"}
          /\ iban \in {None, "CHxxxxxxxxxxxxxxxxxxx"}
       \/ /\ tree \in BalanceTrees \cup EntryTrees \cup DateTrees
          /\ currency = "CHF"
          /\ iban = None
    /\ statement = Null
    /\ version = None
    /\ stmt = Null
    /\ i = 0
    /\ pc = "new"
    /\ exc = NoExc
    /\ result = Null

\* parse(), lines 50-58: the fresh statement and the recognition of the namespace
ParseBegin ==
    /\ pc = "new"
    /\ LET ns == _get_namespace(tree)
           ver == _recognize_version(ns)
       IN /\ statement' = [Statement EXCEPT !.currency = currency,
                                            !.account_id = iban]
          /\ IF ver.exc # NoExc
             THEN /\ pc' = "raised"
                  /\ exc' = ver.exc
                  /\ UNCHANGED version
             ELSE /\ pc' = "properties"
                  /\ version' = ver.value
                  /\ UNCHANGED exc
    /\ UNCHANGED <<currency, iban, tree, stmt, i, result>>

\* parse(), line 60: self._parse_statement_properties(tree)
ParseStatementProperties ==
    /\ pc = "properties"
    /\ LET r == _parse_statement_properties(tree, version, statement)
       IN /\ statement' = r.statement
          /\ exc' = r.exc
          /\ pc' = IF r.exc # NoExc THEN "raised" ELSE "lines"
    /\ UNCHANGED <<currency, iban, tree, version, stmt, i, result>>

\* _parse_lines, line 179: stmt = self._get_statement_el(tree)
ParseLinesBegin ==
    /\ pc = "lines"
    /\ stmt' = _get_statement_el(tree, version)
    /\ i' = 0
    /\ pc' = "ntry"
    /\ UNCHANGED <<currency, iban, tree, statement, version, exc, result>>

\* _parse_lines, lines 181-184: one iteration of the loop over the entries
ParseLine ==
    /\ pc = "ntry"
    /\ i < Len(stmt.Ntry)
    /\ LET sline == _parse_line(stmt.Ntry[i + 1], statement.currency)
       IN IF sline.exc # NoExc
          THEN /\ pc' = "raised"
               /\ exc' = sline.exc
               /\ UNCHANGED <<statement, i>>
          ELSE /\ i' = i + 1
               /\ statement' =
                    IF sline.value # Null
                    THEN [statement EXCEPT !.lines = Append(@, sline.value)]
                    ELSE statement
               /\ UNCHANGED <<pc, exc>>
    /\ UNCHANGED <<currency, iban, tree, version, stmt, result>>

\* parse(), line 63: return self.statement
ParseReturn ==
    /\ pc = "ntry"
    /\ i = Len(stmt.Ntry)
    /\ result' = statement
    /\ pc' = "returned"
    /\ UNCHANGED <<currency, iban, tree, statement, version, stmt, i, exc>>

Next ==
    \/ ParseBegin
    \/ ParseStatementProperties
    \/ ParseLinesBegin
    \/ ParseLine
    \/ ParseReturn

Spec == Init /\ [][Next]_vars

---------------------------------------------------------------------------
(* What the claims speak about *)

Done == pc = "returned"

Terminated == pc \in {"returned", "raised"}

IsPrefix(p, q) == \E k \in 0..Len(q) : SubSeq(q, 1, k) = p

IsCamt053 == IsPrefix(NsBase \o <<"3">>, tree.ns.chars)

IsCamt052 == IsPrefix(NsBase \o <<"2">>, tree.ns.chars)

\* the document's statement node, Null if its namespace or its path is not there
DocStmt ==
    IF IsCamt053 THEN tree.nodes[PathStmt]
    ELSE IF IsCamt052 THEN tree.nodes[PathRpt]
    ELSE Null

\* the entries of ntries whose Amt carries the currency cur, in document order
RECURSIVE EntriesIn(_, _)
EntriesIn(ntries, cur) ==
    IF ntries = <<>> THEN <<>>
    ELSE IF Head(ntries).Amt # Null /\ Head(ntries).Amt.Ccy = cur
         THEN <<Head(ntries)>> \o EntriesIn(Tail(ntries), cur)
         ELSE EntriesIn(Tail(ntries), cur)

Abs(n) == IF n < 0 THEN 0 - n ELSE n

\* the numeric value, in 1/100, of an entry's amount text
DocAmount(e) == Decimal(e.Amt.text).hundredths

\* the texts found at an entry's three memo locations
MemoTexts(e) == { el.text : el \in {e.Ref, e.Ustrd, e.AddtlNtryInf} \ {Null} }

\* line was made from entry e
LineOfEntry(line, e) ==
    /\ Abs(line.amount.hundredths) = Abs(DocAmount(e))
    /\ line.memo \in MemoTexts(e) \cup {None}

\* C1: after a successful parse, the lines are exactly the entries whose Amt
\* currency is the statement currency, one line each, in document order.
C1_LinesAreMatchingEntries ==
    Done =>
      LET m == EntriesIn(DocStmt.Ntry, result.currency)
      IN /\ Len(result.lines) = Len(m)
         /\ \A k \in 1..Len(m) : LineOfEntry(result.lines[k], m[k])

\* a parse that returned at least one line and skipped an entry in another currency
C1_Witness ==
    /\ Done
    /\ Len(result.lines) >= 1
    /\ \E k \in 1..Len(DocStmt.Ntry) : DocStmt.Ntry[k].Amt.Ccy # result.currency
    /\ Len(result.lines) < Len(DocStmt.Ntry)

\* the balances of the document whose Amt carries the currency cur
Survivors(cur) ==
    { k \in 1..Len(DocStmt.Bal) : DocStmt.Bal[k].Amt.Ccy = cur }

SurvivorsCd(cur, cd) ==
    { k \in Survivors(cur) : DocStmt.Bal[k].Cd.text = cd }

\* the amount and the date (at midnight) a balance states
BalAmount(b) == Decimal(b.Amt.text)

BalDate(b) == [date |-> b.Dt.Dt.text.chars[1], time |-> "00:00:00"]

\* the pair (amt, date) is the amount and the date of the k-th balance
FromBal(amt, date, k) ==
    /\ amt = BalAmount(DocStmt.Bal[k])
    /\ date = BalDate(DocStmt.Bal[k])

\* C2: after a successful parse, the start and end balance and date come from
\* balances whose currency is the statement currency, never from another one.
C2_BalancesInStatementCurrency ==
    Done =>
      /\ \E k \in Survivors(result.currency) :
           FromBal(result.end_balance, result.end_date, k)
      /\ (result.start_balance # Null \/ result.start_date # Null) =>
           \E k \in Survivors(result.currency) :
             FromBal(result.start_balance, result.start_date, k)

\* a parse that returned although a closing balance in another currency, with
\* another amount, follows the closing balance in the statement currency
C2_Witness ==
    /\ Done
    /\ \E k, j \in 1..Len(DocStmt.Bal) :
         /\ k < j
         /\ k \in SurvivorsCd(result.currency, "CLBD")
         /\ DocStmt.Bal[j].Cd.text = "CLBD"
         /\ DocStmt.Bal[j].Amt.Ccy # result.currency
         /\ BalAmount(DocStmt.Bal[j]) # BalAmount(DocStmt.Bal[k])

\* C3 as stated: every line of a DBIT entry is negative and every line of a
\* CRDT entry is positive.
C3_SignByIndicator ==
    Done =>
      LET m == EntriesIn(DocStmt.Ntry, result.currency)
      IN \A k \in 1..Len(result.lines) :
           /\ m[k].CdtDbtInd.text = CD_DEBIT => result.lines[k].amount.hundredths < 0
           /\ m[k].CdtDbtInd.text = CD_CREDIT => result.lines[k].amount.hundredths > 0

\* C3 amended: the line of a DBIT entry carries the negated document amount,
\* any other line the document amount; so a strictly positive document amount
\* gives a negative debit and a positive credit.
C3_SignFollowsDocumentAmount ==
    Done =>
      LET m == EntriesIn(DocStmt.Ntry, result.currency)
      IN \A k \in 1..Len(result.lines) :
           LET amount == result.lines[k].amount.hundredths
               debit == m[k].CdtDbtInd.text = CD_DEBIT
           IN /\ debit => amount = 0 - DocAmount(m[k])
              /\ ~debit => amount = DocAmount(m[k])
              /\ DocAmount(m[k]) > 0 => (debit <=> amount < 0)
              /\ DocAmount(m[k]) > 0 => (~debit <=> amount > 0)

\* a returned statement with the line of a debit of a positive amount
C3_Witness ==
    /\ Done
    /\ \E k \in 1..Len(result.lines) :
         LET e == EntriesIn(DocStmt.Ntry, result.currency)[k]
         IN /\ e.CdtDbtInd.text = CD_DEBIT
            /\ DocAmount(e) > 0
            /\ result.lines[k].amount.hundredths < 0

\* the text of the document's account currency, None if absent or empty
DocCcy == IF DocStmt.Ccy # Null THEN DocStmt.Ccy.text ELSE None

\* C4: the document's account currency wins over the configured one; without
\* it the configured one is used and parsing goes on; without either, parse()
\* raises the parse error about the currency and returns nothing.
C4_CurrencyResolution ==
    DocStmt # Null =>
      /\ (Done /\ DocCcy # None) => result.currency = DocCcy
      /\ (Done /\ DocCcy = None /\ currency # None) => result.currency = currency
      /\ (DocCcy # None \/ currency # None) => exc # ParseError(MsgNoCurrency)
      /\ (DocCcy = None /\ currency = None /\ pc \notin {"new", "properties"}) =>
           /\ pc = "raised"
           /\ exc = ParseError(MsgNoCurrency)
           /\ result = Null

\* a parse that returned the document's currency over a different configured one
C4_Witness ==
    /\ Done
    /\ DocCcy # None
    /\ currency # None
    /\ currency # DocCcy
    /\ result.currency = DocCcy

\* the text of the document's IBAN: of the element at the primary path or,
\* when there is none, of the first one at the alternate path; None if absent
DocIban ==
    LET primary == DocStmt.IBAN
        alternate == FindCdtrAcctIBAN(DocStmt.Ntry, 1)
    IN IF primary # Null THEN primary.text
       ELSE IF alternate # Null THEN alternate.text
       ELSE None

C6_NullAccountIdKept ==
    (DocStmt # Null /\ DocIban = None /\ iban = None) =>
      /\ exc # ParseError(MsgNoIban)
      /\ Done => result.account_id = None

\* C6 amended: with the statement node found, without a document IBAN and
\* without a configured one, parse() raises a ParseError and returns nothing:
\* the one about the IBAN once the currency is resolved, the one about the
\* currency before that.
C6_MissingIbanRaises ==
    (DocStmt # Null /\ DocIban = None /\ iban = None
       /\ pc \notin {"new", "properties"}) =>
      /\ pc = "raised"
      /\ result = Null
      /\ exc = IF DocCcy # None \/ currency # None
               THEN ParseError(MsgNoIban) ELSE ParseError(MsgNoCurrency)

\* a parse that raised the error about the IBAN
C6_Witness ==
    /\ pc = "raised"
    /\ DocStmt # Null /\ DocIban = None /\ iban = None
    /\ exc = ParseError(MsgNoIban)

\* the statement as parse() creates it, nothing extracted yet
FreshStatement ==
    [currency |-> currency, account_id |-> iban, bank_id |-> None,
     start_balance |-> Null, start_date |-> Null,
     end_balance |-> Null, end_date |-> Null, lines |-> <<>>]

\* C7: a namespace starting with neither schema root makes parse() raise the
\* parse error with nothing extracted and nothing returned; one starting with
\* the camt.053 root, whatever follows it, has its statement node looked up at
\* BkToCstmrStmt/Stmt, one starting with the camt.052 root at BkToCstmrAcctRpt/Rpt.
C7_FormatDetection ==
    pc # "new" =>
      /\ (~IsCamt053 /\ ~IsCamt052) =>
           /\ pc = "raised"
           /\ exc = ParseError(MsgUnrecognized)
           /\ statement = FreshStatement
           /\ stmt = Null
           /\ result = Null
      /\ (IsCamt053 \/ IsCamt052) => exc # ParseError(MsgUnrecognized)
      /\ \A p \in StmtPaths :
           ((p = PathStmt /\ IsCamt053) \/ (p = PathRpt /\ IsCamt052)) =>
             /\ stmt # Null => stmt.path = p
             /\ (tree.nodes[p] = Null /\ pc # "properties") =>
                  (pc = "raised" /\ exc = AssertionError)
             /\ (tree.nodes[p] # Null /\ pc \in {"ntry", "returned"}) =>
                  stmt = tree.nodes[p]

\* a camt.052 report with a version suffix, holding a node at both paths, parsed
\* from the node at BkToCstmrAcctRpt/Rpt
C7_Witness ==
    /\ Done
    /\ IsCamt052
    /\ tree.ns # CAMT052_NAMESPACE_ROOT
    /\ tree.nodes[PathStmt] # Null
    /\ stmt.path = PathRpt

\* currency and account id are resolved: the balances are reached
BalancesReached ==
    /\ DocStmt # Null
    /\ DocCcy # None \/ currency # None
    /\ DocIban # None \/ iban # None
    /\ pc \notin {"new", "properties"}

\* the currency the balances are filtered with
ResolvedCcy == IF DocCcy # None THEN DocCcy ELSE currency

\* C8 as stated: parse() ends with a ParseError and no statement when no
\* balance survives the currency filter, when balances survive but none is the
\* closing balance CLBD, and when an entry lacks its indicator or its amount.
C8_FatalFailuresAreParseErrors ==
    /\ (BalancesReached /\ Survivors(ResolvedCcy) = {}) =>
         (pc = "raised" /\ exc.type = "ParseError" /\ result = Null)
    /\ (BalancesReached /\ Survivors(ResolvedCcy) # {}
          /\ SurvivorsCd(ResolvedCcy, "CLBD") = {}) =>
         (pc = "raised" /\ exc.type = "ParseError" /\ result = Null)
    /\ (pc = "raised" /\ stmt # Null /\ i < Len(stmt.Ntry)
          /\ (stmt.Ntry[i + 1].CdtDbtInd = Null \/ stmt.Ntry[i + 1].Amt = Null)) =>
         (exc.type = "ParseError" /\ result = Null)

\* C9: after a successful parse, start balance and date are those of one
\* surviving OPBD balance if there is one, else of one surviving PRCD balance;
\* end balance and date are those of one surviving CLBD balance.
C9_OpeningBalanceSelection ==
    Done =>
      LET opbd == SurvivorsCd(result.currency, "OPBD")
          prcd == SurvivorsCd(result.currency, "PRCD")
          clbd == SurvivorsCd(result.currency, "CLBD")
      IN /\ opbd # {} =>
              \E k \in opbd : FromBal(result.start_balance, result.start_date, k)
         /\ (opbd = {} /\ prcd # {}) =>
              \E k \in prcd : FromBal(result.start_balance, result.start_date, k)
         /\ \E k \in clbd : FromBal(result.end_balance, result.end_date, k)

\* a returned statement whose document has a surviving OPBD and a surviving
\* PRCD balance with different amounts, the PRCD one coming last
C9_Witness ==
    /\ Done
    /\ \E k \in SurvivorsCd(result.currency, "OPBD") :
         \E j \in SurvivorsCd(result.currency, "PRCD") :
           /\ k < j
           /\ BalAmount(DocStmt.Bal[k]) # BalAmount(DocStmt.Bal[j])
           /\ result.start_balance = BalAmount(DocStmt.Bal[k])

\* the first non-null text among the three memo locations, None if there is none
FirstMemoValue(e) ==
    IF e.Ref # Null /\ e.Ref.text # None THEN e.Ref.text
    ELSE IF e.Ustrd # Null /\ e.Ustrd.text # None THEN e.Ustrd.text
    ELSE IF e.AddtlNtryInf # Null /\ e.AddtlNtryInf.text # None
         THEN e.AddtlNtryInf.text
    ELSE None

\* the text of the first of the three memo locations that is present
FirstMemoElement(e) ==
    IF e.Ref # Null THEN e.Ref.text
    ELSE IF e.Ustrd # Null THEN e.Ustrd.text
    ELSE IF e.AddtlNtryInf # Null THEN e.AddtlNtryInf.text
    ELSE None

\* C10 as stated: the memo of a line is the first non-null value among
\* structured reference, unstructured remittance information and additional
\* entry information, and null only if none of them has a value.
C10_MemoFirstValue ==
    Done =>
      LET m == EntriesIn(DocStmt.Ntry, result.currency)
      IN \A k \in 1..Len(result.lines) :
           result.lines[k].memo = FirstMemoValue(m[k])

\* C10 amended: the memo of a line is the text of the first of the three
\* elements that is present, be that text empty, and null if none is present.
C10_MemoFirstElement ==
    Done =>
      LET m == EntriesIn(DocStmt.Ntry, result.currency)
      IN \A k \in 1..Len(result.lines) :
           result.lines[k].memo = FirstMemoElement(m[k])

\* a returned line whose memo is the unstructured remittance information
\* although the entry also has additional entry information, and another
\* whose structured reference is present and wins
C10_Witness ==
    /\ Done
    /\ \E k \in 1..Len(result.lines) :
         LET e == EntriesIn(DocStmt.Ntry, result.currency)[k]
         IN /\ e.Ref = Null
            /\ e.Ustrd # Null /\ e.Ustrd.text # None
            /\ e.AddtlNtryInf # Null /\ e.AddtlNtryInf.text # None
            /\ result.lines[k].memo = e.Ustrd.text
    /\ \E k \in 1..Len(result.lines) :
         LET e == EntriesIn(DocStmt.Ntry, result.currency)[k]
         IN /\ e.Ref # Null /\ e.Ref.text # None
            /\ e.Ustrd # Null /\ e.Ustrd.text # None
            /\ result.lines[k].memo = e.Ref.text

\* the text the date normalisation reads in a date container: that of its Dt
\* child, else that of its DtTm child
DateText(c) == IF c.Dt # Null THEN c.Dt.text ELSE c.DtTm.text

HasChild(c) == c # Null /\ (c.Dt # Null \/ c.DtTm # Null)

HasOffset(t) == \E k \in 1..Len(t.chars) : t.chars[k] = "+"

\* the text cut at its first "+"
CutAtFirstPlus(t) ==
    LET first == CHOOSE k \in 1..Len(t.chars) :
                   t.chars[k] = "+" /\ \A j \in 1..(k - 1) : t.chars[j] # "+"
    IN Str(SubSeq(t.chars, 1, first - 1))

WithoutOffset(t) == IF HasOffset(t) THEN CutAtFirstPlus(t) ELSE t

\* the value of the text t, which has no offset, in the container c
ValueOf(c, t) == IF c.Dt # Null THEN strptime_date(t) ELSE strptime_datetime(t)

\* the value the container c has once the offset of its text is discarded;
\* Null for no container
ValueWithoutOffset(c) ==
    IF c = Null THEN Null ELSE ValueOf(c, WithoutOffset(DateText(c)))

\* the container is absent, or its text is a date or date-time once the
\* offset is discarded
GoodWithoutOffset(c) ==
    c = Null \/ (HasChild(c) /\ ValueWithoutOffset(c) # Null)

\* an entry in the statement currency whose only peculiarity is an offset in
\* one of its dates
OnlyOffsets(e, cur) ==
    /\ e.CdtDbtInd # Null
    /\ e.Amt # Null /\ e.Amt.Ccy = cur /\ e.Amt.text # None
    /\ GoodWithoutOffset(e.ValDt) /\ GoodWithoutOffset(e.BookgDt)
    /\ \E c \in {e.ValDt, e.BookgDt} \ {Null} : HasOffset(DateText(c))

\* the date texts with an offset of the entries handled so far
OffsetTextsHandled ==
    IF stmt = Null THEN {}
    ELSE { DateText(c) :
             c \in { d \in UNION { {stmt.Ntry[k].ValDt, stmt.Ntry[k].BookgDt} :
                                     k \in 1..i } :
                       HasChild(d) /\ HasOffset(DateText(d)) } }

\* C11 as stated: a date text with a "+" is cut at its first "+" and the
\* offset never makes the parse fail; the date is the one of the same text
\* without the offset; stripping the stripped text changes nothing.
C11_OffsetStripped ==
    /\ (pc = "raised" /\ stmt # Null /\ i < Len(stmt.Ntry)) =>
         ~OnlyOffsets(stmt.Ntry[i + 1], statement.currency)
    /\ Done =>
         LET m == EntriesIn(DocStmt.Ntry, result.currency)
         IN \A k \in 1..Len(result.lines) :
              /\ result.lines[k].date = ValueWithoutOffset(m[k].ValDt)
              /\ result.lines[k].date_user = ValueWithoutOffset(m[k].BookgDt)
    /\ \A t \in OffsetTextsHandled :
         /\ _notimezone(t) = Returns(CutAtFirstPlus(t))
         /\ _notimezone(_notimezone(t).value) = _notimezone(t)

=============================================================================
